---- MODULE Spec2Model ----
(***************************************************************************)
(* State-machine model of app/auth/router.py: the seven HTTP handlers of   *)
(* the authentication router (register, login, logout, me, all_users,      *)
(* refresh, addroles) over the user store, the role store, the clock and   *)
(* the client's cookie jar.                                                *)
(*                                                                         *)
(* The handlers are translated from router.py.  The collaborators the      *)
(* router imports but does not define (the DAOs, set_tokens,               *)
(* authenticate_user, the auth dependencies) are modelled from the         *)
(* specification's description of them; each such definition says so.      *)
(***************************************************************************)
EXTENDS Integers, FiniteSets, Sequences, TLC

(***************************************************************************)
(* Bounds of the model.                                                    *)
(***************************************************************************)
NumReg == 2          \* concurrent / successive register_user requests
NumRoleReq == 2      \* concurrent / successive addroles requests
MaxTime == 3         \* the clock runs 0..MaxTime
MaxReplay == 2       \* the replay counter of a kept refresh token saturates here

(***************************************************************************)
(* Input domains.                                                          *)
(***************************************************************************)
Passwords == {"pw1", "pw2"}
LoginEmails == {"admin@x", "bob@x", "nobody@x"}   \* /login/ inputs
RegEmails == {"eve@x", "dan@x"}                   \* /register/ inputs
RegPhones == {"+200", "+300", "+400"}
NewRoleNames == {"admin", "editor", "manager"}    \* /addroles inputs

RegIds == 1..NumReg
RoleReqIds == 1..NumRoleReq

(***************************************************************************)
(* Exceptions and results, by the names router.py uses.                    *)
(***************************************************************************)
UserAlreadyExistsException == "UserAlreadyExistsException"
IncorrectEmailOrPasswordException == "IncorrectEmailOrPasswordException"
IntegrityError == "IntegrityError"
Unauthorized == "Unauthorized"
Forbidden == "Forbidden"
Ok == "ok"
Pending == "pending"

(***************************************************************************)
(* Password hashing: the stored value is a hash of the password, and       *)
(* authenticate_user verifies a submitted password against it.             *)
(***************************************************************************)
get_password_hash(p) == <<"hash", p>>

verify_password(p, h) == get_password_hash(p) = h

VARIABLES
    users,      \* the user store: a set of User rows
    roles,      \* the role store: a set of Role rows
    now,        \* the clock
    jar,        \* the client's cookies: user_access_token, user_refresh_token
    kept,       \* a copy of an earlier cookie pair the client still holds
    keptUses,   \* how often kept.refresh has been accepted by /refresh
    keptOut,    \* whether /logout was called since kept was copied
    reg,        \* the register_user requests in flight
    rolereq,    \* the addroles requests in flight
    last,       \* the last response of login/logout/me/all_users/refresh
    failures    \* the failed-login responses seen so far, by cause

vars == <<users, roles, now, jar, kept, keptUses, keptOut, reg, rolereq, last, failures>>

(***************************************************************************)
(* The stores.  UsersDAO / RoleDAO: find_one_or_none, add, find_all.  The  *)
(* storage layer enforces unique email, unique phone_number and unique     *)
(* role name: add raises IntegrityError on a violation.                    *)
(***************************************************************************)
find_user_by_email(e) == {u \in users : u.email = e}

find_user_by_phone(p) == {u \in users : u.phone_number = p}

find_user_by_id(i) == {u \in users : u.id = i}

find_role_by_name(n) == {r \in roles : r.name = n}

UserConstraintViolated(row) ==
    \E u \in users : u.email = row.email \/ u.phone_number = row.phone_number

RoleConstraintViolated(n) == \E r \in roles : r.name = n

NextUserId == Cardinality(users) + 1

NextRoleId == Cardinality(roles) + 1


(***************************************************************************)
(* POST /register/ : register_user.  Three awaits, three steps: the email  *)
(* lookup, the phone lookup, the insert.  Other requests may run between   *)
(* them.                                                                   *)
(***************************************************************************)
IdleReg ==
    [pc |-> "idle", email |-> "", phone_number |-> "", password |-> "",
     confirm_password |-> "", outcome |-> Pending, late |-> FALSE,
     passed |-> FALSE]

\* lines 50-51, 55: user_data.model_dump() without confirm_password, as
\* SUserAddDB: the values that are inserted, the password as its hash.
SUserAddDB(user_data) ==
    [email |-> user_data.email, phone_number |-> user_data.phone_number,
     password |-> get_password_hash(user_data.password)]

\* UsersDAO.add: the new row gets the next id and no role.
NewUserRow(values) ==
    [id |-> NextUserId, email |-> values.email,
     phone_number |-> values.phone_number, password |-> values.password,
     roles |-> {}]

\* Mutant: the email lookup raises the wrong exception.
register_email_check_wrong_error(e) ==
    IF find_user_by_email(e) # {} THEN IncorrectEmailOrPasswordException ELSE Pending

\* lines 36-40: find_one_or_none by email; a hit raises.
register_email_check(e) ==
    IF find_user_by_email(e) # {} THEN UserAlreadyExistsException ELSE Pending

\* lines 43-47: find_one_or_none by phone number; a hit raises.
register_phone_check(p) ==
    IF find_user_by_phone(p) # {} THEN UserAlreadyExistsException ELSE Pending

\* Mutant: the insert without the try/except.
register_add_uncaught(values) ==
    IF UserConstraintViolated(values) THEN IntegrityError ELSE Ok

\* lines 53-59: user_dao.add inside try/except IntegrityError.
register_add(values) ==
    IF UserConstraintViolated(values) THEN UserAlreadyExistsException ELSE Ok

\* The request arrives and runs to its first await's result (line 36).
RegCheckEmail(r) ==
    /\ reg[r].pc = "idle"
    /\ \E e \in RegEmails, p \in RegPhones, pw \in Passwords :
         LET user_data == [IdleReg EXCEPT !.email = e, !.phone_number = p,
                                          !.password = pw, !.confirm_password = pw,
                                          !.late = (find_user_by_email(e) # {}
                                                    \/ find_user_by_phone(p) # {})]
             res == register_email_check(e)
         IN  reg' = [reg EXCEPT ![r] =
                 IF res # Pending
                 THEN [user_data EXCEPT !.pc = "done", !.outcome = res]
                 ELSE [user_data EXCEPT !.pc = "check_phone"]]
    /\ UNCHANGED <<users, roles, now, jar, kept, keptUses, keptOut, rolereq, last, failures>>

\* The second await (line 43).
RegCheckPhone(r) ==
    /\ reg[r].pc = "check_phone"
    /\ LET res == register_phone_check(reg[r].phone_number)
       IN  reg' = [reg EXCEPT ![r] =
               IF res # Pending
               THEN [@ EXCEPT !.pc = "done", !.outcome = res]
               ELSE [@ EXCEPT !.pc = "add", !.passed = TRUE]]
    /\ UNCHANGED <<users, roles, now, jar, kept, keptUses, keptOut, rolereq, last, failures>>

\* The third await (line 55): the insert, committed when it succeeds.
RegAdd(r) ==
    /\ reg[r].pc = "add"
    /\ LET values == SUserAddDB(reg[r])
           res == register_add(values)
       IN  /\ reg' = [reg EXCEPT ![r] = [@ EXCEPT !.pc = "done", !.outcome = res]]
           /\ users' = IF res = Ok /\ ~UserConstraintViolated(values)
                       THEN users \cup {NewUserRow(values)}
                       ELSE users
    /\ UNCHANGED <<roles, now, jar, kept, keptUses, keptOut, rolereq, last, failures>>

(***************************************************************************)
(* Tokens.  A token encodes {user_id, expiry} and is signed; it is kept    *)
(* nowhere on the server.  sig is "ok" for a token the server signed and   *)
(* "bad" for anything a client made up or altered.                         *)
(***************************************************************************)
AccessTTL == 1       \* access tokens are short-lived
RefreshTTL == 2      \* refresh tokens live longer

NoToken == [kind |-> "none", sub |-> 0, exp |-> 0, sig |-> "none"]

NoCookies == [access |-> NoToken, refresh |-> NoToken]

create_access_token(uid) ==
    [kind |-> "access", sub |-> uid, exp |-> now + AccessTTL, sig |-> "ok"]

create_refresh_token(uid) ==
    [kind |-> "refresh", sub |-> uid, exp |-> now + RefreshTTL, sig |-> "ok"]

\* set_tokens(response, user_id): both cookies of the response.
set_tokens(uid) ==
    [access |-> create_access_token(uid), refresh |-> create_refresh_token(uid)]

\* Signature and expiry, then the user the token names: the set holding
\* that user, or the empty set when the token is missing, invalid or expired.
decode_token(t) ==
    IF t.sig = "ok" /\ now < t.exp THEN find_user_by_id(t.sub) ELSE {}

\* Depends(get_current_user): reads the user_access_token cookie.
get_current_user(cookies) == decode_token(cookies.access)

\* Depends(check_refresh_token): reads the user_refresh_token cookie.
check_refresh_token(cookies) == decode_token(cookies.refresh)

IsAdmin(u) == "admin" \in u.roles

\* Depends(get_current_admin_user): the current user, who must be an admin.
get_current_admin_user(cookies) ==
    IF get_current_user(cookies) = {} THEN Unauthorized
    ELSE IF \E u \in get_current_user(cookies) : IsAdmin(u) THEN Ok
    ELSE Forbidden

\* authenticate_user(user, password)
authenticate_user(user, password) == verify_password(password, user.password)

(***************************************************************************)
(* Responses.  outcome is "ok" or the exception raised; set holds the      *)
(* cookies written by set_tokens, deleted the names given to               *)
(* delete_cookie; profile and list are the body.                           *)
(***************************************************************************)
NoProfile == [id |-> 0, email |-> "", phone_number |-> "", roles |-> {}]

SUserInfo(u) ==
    [id |-> u.id, email |-> u.email, phone_number |-> u.phone_number,
     roles |-> u.roles]

Response(outcome) ==
    [outcome |-> outcome, set |-> NoCookies, deleted |-> {},
     profile |-> NoProfile, list |-> {}]

\* What the client's cookie jar holds after a response.
ApplyCookies(cookies, resp) ==
    IF resp.set # NoCookies THEN resp.set
    ELSE [access  |-> IF "user_access_token" \in resp.deleted
                      THEN NoToken ELSE cookies.access,
          refresh |-> IF "user_refresh_token" \in resp.deleted
                      THEN NoToken ELSE cookies.refresh]

\* Mutant: an unknown email gets an error of its own.
auth_user_user_not_found(email, password) ==
    LET user == find_user_by_email(email)
    IN  IF user = {} THEN Response("UserNotFoundException")
        ELSE IF ~(\A u \in user : authenticate_user(u, password))
        THEN Response(IncorrectEmailOrPasswordException)
        ELSE [Response(Ok) EXCEPT !.set = set_tokens((CHOOSE u \in user : TRUE).id)]

\* POST /login/ (lines 62-74)
auth_user(email, password) ==
    LET user == find_user_by_email(email)
    IN  IF ~(user # {} /\ \A u \in user : authenticate_user(u, password))
        THEN Response(IncorrectEmailOrPasswordException)
        ELSE [Response(Ok) EXCEPT !.set = set_tokens((CHOOSE u \in user : TRUE).id)]

\* Mutant: only the access cookie is deleted.
logout_access_only ==
    [Response(Ok) EXCEPT !.deleted = {"user_access_token"}]

\* POST /logout (lines 77-81)
logout ==
    [Response(Ok) EXCEPT !.deleted = {"user_access_token", "user_refresh_token"}]

\* Mutant: the handler depends on check_refresh_token.
get_me_by_refresh_cookie(cookies) ==
    LET user_data == check_refresh_token(cookies)
    IN  IF user_data = {} THEN Response(Unauthorized)
        ELSE [Response(Ok) EXCEPT !.profile = SUserInfo(CHOOSE u \in user_data : TRUE)]

\* GET /me/ (lines 84-86)
get_me(cookies) ==
    LET user_data == get_current_user(cookies)
    IN  IF user_data = {} THEN Response(Unauthorized)
        ELSE [Response(Ok) EXCEPT !.profile = SUserInfo(CHOOSE u \in user_data : TRUE)]

\* Mutant: the handler depends on get_current_user, not the admin check.
get_all_users_any_user(cookies) ==
    IF get_current_user(cookies) = {} THEN Response(Unauthorized)
    ELSE [Response(Ok) EXCEPT !.list = {SUserInfo(u) : u \in users}]

\* GET /all_users/ (lines 89-94)
get_all_users(cookies) ==
    LET auth == get_current_admin_user(cookies)
    IN  IF auth # Ok THEN Response(auth)
        ELSE [Response(Ok) EXCEPT !.list = {SUserInfo(u) : u \in users}]

\* Mutant: the handler answers without calling set_tokens.
process_refresh_token_no_set_tokens(cookies) ==
    IF check_refresh_token(cookies) = {} THEN Response(Unauthorized)
    ELSE Response(Ok)

\* Mutant: the handler depends on get_current_user (the access cookie).
process_refresh_token_by_access_cookie(cookies) ==
    LET user == get_current_user(cookies)
    IN  IF user = {} THEN Response(Unauthorized)
        ELSE [Response(Ok) EXCEPT !.set = set_tokens((CHOOSE u \in user : TRUE).id)]

\* POST /refresh (lines 97-102)
process_refresh_token(cookies) ==
    LET user == check_refresh_token(cookies)
    IN  IF user = {} THEN Response(Unauthorized)
        ELSE [Response(Ok) EXCEPT !.set = set_tokens((CHOOSE u \in user : TRUE).id)]

(***************************************************************************)
(* The client.  A request carries the cookies the client chooses to send:  *)
(* its jar, the copy it kept, none, the refresh cookie alone, or cookies   *)
(* it altered or made up (which carry no valid signature).                 *)
(***************************************************************************)
Tampered(t) ==
    IF t = NoToken THEN NoToken ELSE [t EXCEPT !.exp = MaxTime + 1, !.sig = "bad"]

ForgedCookies ==
    [access  |-> [kind |-> "access", sub |-> 1, exp |-> MaxTime + 1, sig |-> "bad"],
     refresh |-> [kind |-> "refresh", sub |-> 1, exp |-> MaxTime + 1, sig |-> "bad"]]

Sendable ==
    {jar, kept, NoCookies, ForgedCookies,
     [jar EXCEPT !.access = NoToken],
     [access |-> Tampered(jar.access), refresh |-> Tampered(jar.refresh)]}

NoResponse == Response("none")

NoLast ==
    [op |-> "none", at |-> 0, email |-> "", sent |-> NoCookies,
     prev |-> NoCookies, resp |-> NoResponse, nuse |-> 0]

Min(a, b) == IF a < b THEN a ELSE b

\* The client sends POST /login/ and stores the cookies of the response.
Login ==
    /\ \E email \in LoginEmails, password \in Passwords :
         LET resp == auth_user(email, password)
             cause == IF find_user_by_email(email) = {} THEN "no_user"
                      ELSE "bad_password"
         IN  /\ jar' = ApplyCookies(jar, resp)
             /\ last' = [NoLast EXCEPT !.op = "login", !.at = now, !.email = email,
                                       !.prev = jar,
                                       !.resp = resp]
             /\ failures' = IF resp.outcome = Ok THEN failures
                            ELSE failures \cup {<<cause, resp>>}
    /\ UNCHANGED <<users, roles, now, kept, keptUses, keptOut, reg, rolereq>>

\* POST /logout, with or without cookies in the jar.
Logout ==
    /\ LET resp == logout
       IN  /\ jar' = ApplyCookies(jar, resp)
           /\ last' = [NoLast EXCEPT !.op = "logout", !.at = now, !.sent = jar,
                                     !.prev = jar, !.resp = resp]
    /\ keptOut' = (keptOut \/ kept # NoCookies)
    /\ UNCHANGED <<users, roles, now, kept, keptUses, reg, rolereq, failures>>

\* GET /me/
Me ==
    /\ \E cookies \in Sendable :
         LET resp == get_me(cookies)
         IN  /\ jar' = ApplyCookies(jar, resp)
             /\ last' = [NoLast EXCEPT !.op = "me", !.at = now, !.sent = cookies,
                                       !.prev = jar, !.resp = resp]
    /\ UNCHANGED <<users, roles, now, kept, keptUses, keptOut, reg, rolereq, failures>>

\* GET /all_users/
AllUsers ==
    /\ \E cookies \in Sendable :
         LET resp == get_all_users(cookies)
         IN  /\ jar' = ApplyCookies(jar, resp)
             /\ last' = [NoLast EXCEPT !.op = "all_users", !.at = now,
                                       !.sent = cookies, !.prev = jar, !.resp = resp]
    /\ UNCHANGED <<users, roles, now, kept, keptUses, keptOut, reg, rolereq, failures>>

\* POST /refresh.  nuse counts the earlier accepted uses of the refresh token
\* sent, when it is the kept one.
Refresh ==
    /\ \E cookies \in Sendable :
         LET resp == process_refresh_token(cookies)
             isKept == kept.refresh # NoToken /\ cookies.refresh = kept.refresh
         IN  /\ jar' = ApplyCookies(jar, resp)
             /\ last' = [NoLast EXCEPT !.op = "refresh", !.at = now,
                                       !.sent = cookies, !.prev = jar, !.resp = resp,
                                       !.nuse = IF isKept THEN keptUses ELSE 0]
             /\ keptUses' = IF isKept /\ resp.outcome = Ok
                            THEN Min(keptUses + 1, MaxReplay) ELSE keptUses
    /\ UNCHANGED <<users, roles, now, kept, keptOut, reg, rolereq, failures>>

\* The client copies its cookies (a second device, a saved request, a thief).
Keep ==
    /\ jar # NoCookies
    /\ kept # jar
    /\ kept' = jar
    /\ keptUses' = 0
    /\ keptOut' = FALSE
    /\ UNCHANGED <<users, roles, now, jar, reg, rolereq, last, failures>>

\* Time passes.
Tick ==
    /\ now < MaxTime
    /\ now' = now + 1
    /\ UNCHANGED <<users, roles, jar, kept, keptUses, keptOut, reg, rolereq, last, failures>>

(***************************************************************************)
(* POST /addroles : addroles.  The admin dependency and the lookup, then   *)
(* the insert; other requests may run between the two awaits.              *)
(***************************************************************************)
IdleRole ==
    [pc |-> "idle", name |-> "", outcome |-> Pending, existed |-> FALSE,
     passed |-> FALSE]

\* lines 112-114: find_one_or_none by name; a hit raises.
addroles_check(name) ==
    IF find_role_by_name(name) # {} THEN UserAlreadyExistsException ELSE Pending

\* Mutant: the insert wrapped as in register_user.
addroles_add_caught(name) ==
    IF RoleConstraintViolated(name) THEN UserAlreadyExistsException ELSE Ok

\* line 117: role_dao.add, with no try/except around it.
addroles_add(name) ==
    IF RoleConstraintViolated(name) THEN IntegrityError ELSE Ok

NewRoleRow(name) == [id |-> NextRoleId, name |-> name]

\* The request arrives, the admin dependency is resolved, the name looked up.
RoleCheck(q) ==
    /\ rolereq[q].pc = "idle"
    /\ \E name \in NewRoleNames, cookies \in Sendable :
         LET auth == get_current_admin_user(cookies)
             res == IF auth # Ok THEN auth ELSE addroles_check(name)
             role_data == [IdleRole EXCEPT !.name = name,
                                           !.existed = (find_role_by_name(name) # {})]
         IN  rolereq' = [rolereq EXCEPT ![q] =
                 IF res # Pending
                 THEN [role_data EXCEPT !.pc = "done", !.outcome = res]
                 ELSE [role_data EXCEPT !.pc = "add", !.passed = TRUE]]
    /\ UNCHANGED <<users, roles, now, jar, kept, keptUses, keptOut, reg, last, failures>>

\* The insert (line 117), committed when it succeeds.
RoleAdd(q) ==
    /\ rolereq[q].pc = "add"
    /\ LET res == addroles_add(rolereq[q].name)
       IN  /\ rolereq' = [rolereq EXCEPT ![q] =
                   [@ EXCEPT !.pc = "done", !.outcome = res]]
           /\ roles' = IF res = Ok /\ ~RoleConstraintViolated(rolereq[q].name)
                       THEN roles \cup {NewRoleRow(rolereq[q].name)}
                       ELSE roles
    /\ UNCHANGED <<users, now, jar, kept, keptUses, keptOut, reg, last, failures>>

(***************************************************************************)
(* The initial state: the database holds the admin and one ordinary user   *)
(* (registered earlier) and the roles "admin" and "user"; no request is in *)
(* flight and the client holds no cookie.                                  *)
(***************************************************************************)
AdminUser ==
    [id |-> 1, email |-> "admin@x", phone_number |-> "+100",
     password |-> get_password_hash("pw1"), roles |-> {"admin"}]

OrdinaryUser ==
    [id |-> 2, email |-> "bob@x", phone_number |-> "+200",
     password |-> get_password_hash("pw2"), roles |-> {}]

Init ==
    /\ users = {AdminUser, OrdinaryUser}
    /\ roles = {[id |-> 1, name |-> "admin"], [id |-> 2, name |-> "user"]}
    /\ now = 0
    /\ jar = NoCookies
    /\ kept = NoCookies
    /\ keptUses = 0
    /\ keptOut = FALSE
    /\ reg = [r \in RegIds |-> IdleReg]
    /\ rolereq = [q \in RoleReqIds |-> IdleRole]
    /\ last = NoLast
    /\ failures = {}

NextRegister == \E r \in RegIds : RegCheckEmail(r) \/ RegCheckPhone(r) \/ RegAdd(r)

NextSession == Login \/ Logout \/ Me \/ AllUsers \/ Refresh \/ Keep \/ Tick

NextRoles == Login \/ \E q \in RoleReqIds : RoleCheck(q) \/ RoleAdd(q)

Next == NextRegister \/ NextSession \/ NextRoles

\* The whole router.
Spec == Init /\ [][Next]_vars

\* Workloads: only /register/ is called; only the session endpoints are;
\* only /login/ and /addroles are.  register_user writes only the user store,
\* addroles only the role store, the session handlers neither.
SpecRegister == Init /\ [][NextRegister]_vars

SpecSession == Init /\ [][NextSession]_vars

SpecRoles == Init /\ [][NextRoles]_vars

(***************************************************************************)
(* Properties.                                                             *)
(*                                                                         *)
(* In a register_user request, late says that the email or the phone       *)
(* number was already stored when the request arrived, and passed that     *)
(* both lookups found nothing.  In an addroles request, existed and passed *)
(* say the same of the role name.  In last, at is the time of the request, *)
(* sent the cookies it carried, prev the jar before it.                    *)
(***************************************************************************)

\* A token the server signed that has not expired at time t.
Good(tok, t) == tok.sig = "ok" /\ t < tok.exp

UserById(i) == CHOOSE u \in users : u.id = i

Conflict(a, b) == a.email = b.email \/ a.phone_number = b.phone_number

\* C1: a register_user call that arrives when its email or its phone number
\* is already registered ends with UserAlreadyExistsException, and the step
\* that ends a call with that error leaves the user store as it was.
C1_DuplicateRegistrationRejected ==
    /\ [](\A r \in RegIds :
            (reg[r].pc = "done" /\ reg[r].late)
                => reg[r].outcome = UserAlreadyExistsException)
    /\ [][\A r \in RegIds :
            (reg[r].pc # "done" /\ reg'[r].pc = "done"
             /\ reg'[r].outcome = UserAlreadyExistsException) => users' = users]_vars

\* C1 witness: a call succeeded, and a later call with the same phone number
\* but another email was rejected.
C1_Witness ==
    \E r1, r2 \in RegIds :
        /\ reg[r1].pc = "done" /\ reg[r1].outcome = Ok
        /\ reg[r2].pc = "done" /\ reg[r2].late
        /\ reg[r2].phone_number = reg[r1].phone_number
        /\ reg[r2].email # reg[r1].email
        /\ reg[r2].outcome = UserAlreadyExistsException

\* C2: under every interleaving of register_user requests, email and
\* phone_number stay unique in the user store, of two requests with the same
\* email or phone number at most one succeeds, and a request that does not
\* succeed ends with UserAlreadyExistsException, never a raw IntegrityError.
C2_RegisterRace ==
    /\ \A u, v \in users : Conflict(u, v) => u = v
    /\ \A r1, r2 \in RegIds :
         (r1 # r2 /\ reg[r1].pc = "done" /\ reg[r2].pc = "done"
          /\ Conflict(reg[r1], reg[r2]))
             => ~(reg[r1].outcome = Ok /\ reg[r2].outcome = Ok)
    /\ \A r \in RegIds :
         (reg[r].pc = "done" /\ reg[r].outcome # Ok)
             => reg[r].outcome = UserAlreadyExistsException

\* C2 witness: two requests with the same email both passed both lookups;
\* one inserted, the other hit the constraint at its insert.
C2_Witness ==
    \E r1, r2 \in RegIds :
        /\ r1 # r2 /\ reg[r1].email = reg[r2].email
        /\ reg[r1].pc = "done" /\ reg[r1].passed /\ reg[r1].outcome = Ok
        /\ reg[r2].pc = "done" /\ reg[r2].passed
        /\ reg[r2].outcome = UserAlreadyExistsException

\* C3: every failed login, whether the email matched no user or the password
\* was wrong, gets the same response: IncorrectEmailOrPasswordException and
\* no cookie set; the jar is as before.
C3_LoginFailuresIdentical ==
    /\ \A f \in failures : f[2] = Response(IncorrectEmailOrPasswordException)
    /\ \A f, g \in failures : f[2] = g[2]
    /\ (last.op = "login" /\ last.resp.outcome # Ok) => jar = last.prev

\* C3 witness: both kinds of failure have been seen.
C3_Witness ==
    /\ \E f \in failures : f[1] = "no_user"
    /\ \E f \in failures : f[1] = "bad_password"

\* C4 as stated: the access token of a successful /refresh differs from the
\* one the client held before the call.
C4_RefreshAlwaysDistinct ==
    (last.op = "refresh" /\ last.resp.outcome = Ok)
        => last.resp.set.access # last.prev.access

\* C4 amended: a successful /refresh sets a pair for the refresh token's user
\* that expires AccessTTL / RefreshTTL after the call; its access token
\* differs from the one held before unless that one names the same user and
\* the same expiry.
C4_RefreshIssuesFreshPair ==
    (last.op = "refresh" /\ last.resp.outcome = Ok) =>
        /\ last.resp.set.access =
              [kind |-> "access", sub |-> last.sent.refresh.sub,
               exp |-> last.at + AccessTTL, sig |-> "ok"]
        /\ last.resp.set.refresh =
              [kind |-> "refresh", sub |-> last.sent.refresh.sub,
               exp |-> last.at + RefreshTTL, sig |-> "ok"]
        /\ jar = last.resp.set
        /\ (last.prev.access.sub # last.sent.refresh.sub
            \/ last.prev.access.exp # last.at + AccessTTL)
               => last.resp.set.access # last.prev.access

\* C4 witness: a refresh replaced an access token the client held by another.
C4_Witness ==
    /\ last.op = "refresh" /\ last.resp.outcome = Ok
    /\ last.prev.access # NoToken
    /\ last.prev.access.sub = last.sent.refresh.sub
    /\ jar.access # last.prev.access

\* C5: /all_users/ answers a valid access token of a non-admin with
\* Forbidden and no list, answers Unauthorized only when the token is
\* missing, invalid or expired, and returns the list only to a valid token
\* of an admin.
C5_AllUsersAdminOnly ==
    last.op = "all_users" =>
        LET tok == last.sent.access
        IN  /\ (Good(tok, last.at) /\ "admin" \notin UserById(tok.sub).roles)
                  => (last.resp.outcome = Forbidden /\ last.resp.list = {})
            /\ last.resp.outcome = Unauthorized => ~Good(tok, last.at)
            /\ last.resp.outcome # Ok => last.resp.list = {}
            /\ last.resp.outcome = Ok
                  => /\ Good(tok, last.at)
                     /\ "admin" \in UserById(tok.sub).roles
                     /\ last.resp.list = {SUserInfo(u) : u \in users}

\* C5 witness: a non-admin's valid token was answered with Forbidden.
C5_Witness ==
    /\ last.op = "all_users" /\ last.resp.outcome = Forbidden
    /\ Good(last.sent.access, last.at)
    /\ UserById(last.sent.access.sub).roles = {}

\* The error the specification names for an existing role name.  router.py
\* defines and raises no such exception.
DuplicateRole == "DuplicateRole"

\* Another addroles request with the same name that also passed the lookup.
Rival(q) ==
    \E q2 \in RoleReqIds :
        q2 # q /\ rolereq[q2].name = rolereq[q].name /\ rolereq[q2].passed

\* C6 as stated: addroles by an admin ends with DuplicateRole when the name
\* was already stored, and with success and the role stored when it was not
\* (and no other request raced it).
C6_AddRolesDuplicateRole ==
    \A q \in RoleReqIds :
        (rolereq[q].pc = "done" /\ rolereq[q].outcome \notin {Unauthorized, Forbidden})
            => /\ rolereq[q].existed => rolereq[q].outcome = DuplicateRole
               /\ (~rolereq[q].existed /\ ~Rival(q))
                     => /\ rolereq[q].outcome = Ok
                        /\ find_role_by_name(rolereq[q].name) # {}

\* C7: the access token set by a successful login or refresh is accepted by
\* /me/ at once, which returns the profile of the user it was issued to;
\* /me/ answers a good access token with the profile of its user and
\* anything else (missing, expired, altered) with Unauthorized and no
\* profile.
C7_MeAcceptsFreshToken ==
    /\ (last.op \in {"login", "refresh"} /\ last.resp.outcome = Ok /\ last.at = now)
          => /\ get_me(last.resp.set).outcome = Ok
             /\ get_me(last.resp.set).profile
                    = SUserInfo(UserById(last.resp.set.access.sub))
             /\ last.op = "login"
                    => get_me(last.resp.set).profile.email = last.email
             /\ last.op = "refresh"
                    => get_me(last.resp.set).profile.id = last.sent.refresh.sub
    /\ last.op = "me" =>
          IF Good(last.sent.access, last.at)
          THEN /\ last.resp.outcome = Ok
               /\ last.resp.profile = SUserInfo(UserById(last.sent.access.sub))
          ELSE /\ last.resp.outcome = Unauthorized
               /\ last.resp.profile = NoProfile

\* C7 witness: /me/ accepted an access token issued at the time of the call.
C7_Witness ==
    /\ last.op = "me" /\ last.resp.outcome = Ok
    /\ last.sent.access.exp = last.at + AccessTTL
    /\ last.resp.profile.id = last.sent.access.sub

\* C8: every /logout deletes both cookies, whatever the jar held, and leaves
\* the stores as they were; a token issued before a logout is accepted by
\* /me/ and /refresh after it while it has not expired.
C8_LogoutClearsCookiesOnly ==
    /\ [](last.op = "logout" =>
            /\ last.resp.outcome = Ok
            /\ last.resp.deleted = {"user_access_token", "user_refresh_token"}
            /\ jar = NoCookies)
    /\ [][(last' # last /\ last'.op = "logout") => UNCHANGED <<users, roles>>]_vars
    /\ []((last.op = "me" /\ keptOut /\ last.sent = kept
           /\ Good(kept.access, last.at)) => last.resp.outcome = Ok)
    /\ []((last.op = "refresh" /\ keptOut /\ last.sent = kept
           /\ Good(kept.refresh, last.at)) => last.resp.outcome = Ok)

\* C8 witness: after a logout, /me/ accepted an access token issued before it.
C8_Witness ==
    /\ last.op = "me" /\ last.resp.outcome = Ok
    /\ keptOut /\ last.sent = kept /\ jar = NoCookies

\* C9: /refresh accepts a refresh token that has not expired and sets a new
\* pair, however often that token was accepted before.
C9_RefreshTokenReusable ==
    (last.op = "refresh" /\ Good(last.sent.refresh, last.at))
        => /\ last.resp.outcome = Ok
           /\ last.resp.set # NoCookies
           /\ last.resp.set.refresh.sub = last.sent.refresh.sub

\* C9 witness: /refresh accepted a refresh token it had accepted twice before.
C9_Witness ==
    /\ last.op = "refresh" /\ last.resp.outcome = Ok
    /\ last.sent.refresh = kept.refresh
    /\ last.nuse >= 2

\* C10: role names stay unique in the role store; of the addroles requests
\* with one name that all passed the lookup and have ended, exactly one
\* succeeded and every other ended with the raw IntegrityError.
C10_AddRolesRace ==
    /\ \A a, b \in roles : a.name = b.name => a = b
    /\ \A q \in RoleReqIds :
         (rolereq[q].pc = "done" /\ rolereq[q].passed) =>
            LET same == {x \in RoleReqIds : /\ rolereq[x].pc = "done"
                                            /\ rolereq[x].passed
                                            /\ rolereq[x].name = rolereq[q].name}
            IN  /\ Cardinality({x \in same : rolereq[x].outcome = Ok}) = 1
                /\ \A x \in same : rolereq[x].outcome \in {Ok, IntegrityError}

\* C10 witness: two requests with one name both passed the lookup; one
\* inserted, the other ended with IntegrityError.
C10_Witness ==
    \E q1, q2 \in RoleReqIds :
        /\ q1 # q2 /\ rolereq[q1].name = rolereq[q2].name
        /\ rolereq[q1].passed /\ rolereq[q2].passed
        /\ rolereq[q1].outcome = Ok
        /\ rolereq[q2].outcome = IntegrityError

====
